---- MODULE Spec2Model ----
(***************************************************************************)
(* Model of src/server.ts: the payment-verification handler together with  *)
(* the socket.io broadcaster it publishes into, and the Server-Sent-Events *)
(* relay of /api/gemini/chat-stream.                                       *)
(*                                                                         *)
(* Strings are sequences of character codes.  A request-body field is a    *)
(* record [kind, str]: kind "undefined" for a field absent from the JSON   *)
(* body, kind "string" or "number" for a field that is present.            *)
(***************************************************************************)
EXTENDS Integers, Sequences, FiniteSets, TLC

(***************************************************************************)
(* Bounds of the model.                                                    *)
(***************************************************************************)
MaxCalls == 3
MaxFragments == 2

(***************************************************************************)
(* Character codes (ASCII).                                                *)
(***************************************************************************)
Bar == 124
HexDigits == <<48, 49, 50, 51, 52, 53, 54, 55, 56, 57, 97, 98, 99, 100, 101, 102>>
UndefinedText == <<117, 110, 100, 101, 102, 105, 110, 101, 100>>

Undefined == [kind |-> "undefined", str |-> <<>>]
Str(s) == [kind |-> "string", str |-> s]
\* A non-zero JSON number, with its decimal digits.
Num(digits) == [kind |-> "number", str |-> digits]

\* JavaScript truthiness of a body field: undefined and "" are falsy.
Truthy(v) == (v.kind = "string" /\ v.str # <<>>) \/ v.kind = "number"

\* Template-literal coercion `${v}`.
Template(v) == IF v.kind = "undefined" THEN UndefinedText ELSE v.str

\* payload = `${razorpay_order_id}|${razorpay_payment_id}`
Payload(order, pay) == Template(order) \o <<Bar>> \o Template(pay)

RECURSIVE Fold(_, _)
\* Digest: a one-byte stand-in for SHA-256, folded over the bytes.
Fold(h, bytes) ==
    IF bytes = <<>> THEN h
    ELSE Fold((h * 31 + Head(bytes) + 7) % 256, Tail(bytes))

\* .digest('hex'): two lowercase hex digits per byte.
Hex(b) == <<HexDigits[(b \div 16) + 1], HexDigits[(b % 16) + 1]>>

\* crypto.createHmac('sha256', key).update(payload).digest('hex')
Hmac(key, payload) == Hex(Fold(Fold(Fold(0, key), <<0>>), payload))

(***************************************************************************)
(* Input sets.                                                             *)
(***************************************************************************)
Secrets == {<<>>, <<107>>}
OrderA == <<111>>
PayB == <<112>>
OrderIds == {Undefined, Str(<<>>), Str(OrderA)}
PaymentIds == {Undefined, Str(<<>>), Str(PayB)}
BadSig == <<122, 122>>
\* The right signature for OrderA|PayB under the non-empty secret, with its
\* last character replaced.
NearSig == <<Hmac(<<107>>, Payload(Str(OrderA), Str(PayB)))[1], 122>>
Signatures ==
    {Undefined, Str(<<>>), Str(BadSig), Str(NearSig)}
        \cup {Str(Hmac(k, Payload(Str(OrderA), Str(PayB)))) : k \in Secrets}
        \cup {Str(Hmac(k, Payload(Str(<<>>), Str(PayB)))) : k \in Secrets}
Subscribers == {"s1", "s2"}

VARIABLES
    razorpayKeySecret,  \* process-wide secret, read once at startup
    sockets,            \* io: the sockets currently connected (the registry)
    inbox,              \* per subscriber: the publish numbers delivered to it
    published,          \* ghost: per publish, the event and the registry then
    lastCall,           \* the latest verify-payment call and its response
    nCalls,             \* number of verify-payment calls so far
    nMatched,           \* ghost: calls whose signature equalled the HMAC
    nVerified           \* ghost: of those, the calls with every field present

payVars ==
    <<razorpayKeySecret, sockets, inbox, published, lastCall, nCalls, nMatched,
      nVerified>>

NoCall ==
    [order |-> Undefined, pay |-> Undefined, sig |-> Undefined,
     status |-> 0, success |-> FALSE, error |-> "", effects |-> <<>>,
     work |-> 0]

(***************************************************************************)
(* POST /api/razorpay/verify-payment                                       *)
(***************************************************************************)
MissingFields(order, pay, sig) == ~Truthy(order) \/ ~Truthy(pay) \/ ~Truthy(sig)

IsValidLoose(secret, order, pay, sig) == sig.kind = "string"
\* isValid = expectedSignature === razorpay_signature
IsValid(secret, order, pay, sig) ==
    sig.kind = "string" /\ Hmac(secret, Payload(order, pay)) = sig.str

\* The characters `a === b` examines on two strings: none when the lengths
\* differ, otherwise up to and including the first difference.
CompareWork(a, b) ==
    IF Len(a) # Len(b) THEN 0
    ELSE LET diff == {i \in 1..Len(a) : a[i] # b[i]}
         IN  IF diff = {} THEN Len(a)
             ELSE CHOOSE i \in diff : \A j \in diff : i <= j

HandlerStepsRespondFirst(valid) ==
    IF valid THEN <<"hmac", "json", "emit">> ELSE <<"hmac", "json">>
\* The handler's steps after validation, in program order.
HandlerSteps(valid) ==
    IF valid THEN <<"hmac", "emit", "json">> ELSE <<"hmac", "json">>

\* The response and trace of one verify-payment call.
VerifyPayment(secret, order, pay, sig) ==
    IF MissingFields(order, pay, sig)
    THEN [order |-> order, pay |-> pay, sig |-> sig,
          status |-> 400, success |-> FALSE,
          error |-> "Missing fields", effects |-> <<"json">>, work |-> 0]
    ELSE [order |-> order, pay |-> pay, sig |-> sig,
          status |-> 200, success |-> IsValid(secret, order, pay, sig),
          error |-> "", effects |-> HandlerSteps(IsValid(secret, order, pay, sig)),
          work |-> IF sig.kind = "string"
                   THEN CompareWork(Hmac(secret, Payload(order, pay)), sig.str)
                   ELSE 0]

\* Number of "emit" steps in a handler trace.
Emits(effects) == Cardinality({i \in 1..Len(effects) : effects[i] = "emit"})

(***************************************************************************)
(* io.emit: one packet to every socket connected at the time of the call.  *)
(***************************************************************************)
BroadcastAll(reg, inb, n) == [s \in Subscribers |-> Append(inb[s], n)]
BroadcastTwice(reg, inb, n) ==
    [s \in Subscribers |-> IF s \in reg THEN inb[s] \o <<n, n>> ELSE inb[s]]
Broadcast(reg, inb, n) ==
    [s \in Subscribers |-> IF s \in reg THEN Append(inb[s], n) ELSE inb[s]]


(***************************************************************************)
(* POST /api/gemini/chat-stream                                            *)
(***************************************************************************)
Sessions == {"a", "b"}
ApiKeys == {"", "key"}
Prompts == {Undefined, Str(<<>>), Num(<<53>>), Str(<<104, 105>>)}
Fragments == {"", "Hel", "lo"}
Outcomes == {"ok", "throw"}
\* What a failing provider call raises.
RawErrors == {"429 quota exceeded", "503 unavailable"}

VARIABLES
    apiKey,     \* GEMINI_API_KEY || GOOGLE_API_KEY || ''
    session     \* per request: the handler's position and its response

streamVars == <<apiKey, session>>

VARIABLES
    razorpayKeyId,  \* process.env.RAZORPAY_KEY_ID || ''
    api             \* the latest create-order, payments or chat call

apiVars == <<razorpayKeyId, api>>
vars == <<razorpayKeySecret, sockets, inbox, published, lastCall, nCalls,
          nMatched, nVerified, apiKey, session, razorpayKeyId, api>>

\* pc: "idle" (no request yet), "opening" (awaiting generateContentStream),
\* "streaming" (awaiting the iterator's next chunk), "done" (handler returned).
\* wire: the res.write calls in order; pending: writes accepted by the
\* response and not yet flushed to the client; pulled: the chunk texts the
\* iterator has produced; failed: the upstream call or iterator raised;
\* gone: the client has closed the connection; rejected: the handler's
\* promise rejected; prompt: req.body.prompt; heads: the statuses written by
\* res.writeHead, in order; upstream: the generateContentStream calls made;
\* logged: the raw error passed to console.error.
NewSession ==
    [pc |-> "idle", status |-> 0, body |-> "", wire |-> <<>>, pending |-> <<>>,
     ended |-> FALSE, pulled |-> <<>>, failed |-> FALSE, gone |-> FALSE,
     rejected |-> FALSE, prompt |-> Undefined, heads |-> <<>>, upstream |-> 0,
     logged |-> ""]

\* res.write(chunk) with outcome o: returns normally or throws.
Write(r, ev, text, o) ==
    [r EXCEPT !.wire = Append(@, [ev |-> ev, text |-> text, ok |-> (o = "ok")]),
              !.pending = IF o = "ok" /\ ~r.gone THEN Append(@, ev) ELSE @]

\* res.end()
End(r) == [r EXCEPT !.ended = TRUE, !.pc = "done"]

CatchNoEvent(r, o) == End(r)
CatchSetsStatus(r, o) ==
    [End(Write(r, "error", "Streaming failed", o)) EXCEPT
        !.rejected = (o # "ok"), !.status = 500, !.heads = Append(@, 500)]
CatchNoFinally(r, o) ==
    IF o = "ok" THEN End(Write(r, "error", "Streaming failed", o))
    ELSE [Write(r, "error", "Streaming failed", o) EXCEPT
             !.pc = "done", !.rejected = TRUE]
\* catch (error) { try { res.write(error event) } finally { res.end() } }
Catch(r, o) ==
    [End(Write(r, "error", "Streaming failed", o)) EXCEPT !.rejected = (o # "ok")]

\* Loop body: if (text) res.write(data event); a throw enters the catch block.
RelayChunk(r, text, o1, o2) ==
    LET p == [r EXCEPT !.pulled = Append(@, text)]
    IN  IF text = "" THEN p
        ELSE IF o1 = "ok" THEN Write(p, "text", text, o1)
        ELSE Catch(Write(p, "text", text, o1), o2)

\* After the loop: the two writes of the done event, then res.end().
Finish(r, o1, o2, o3) ==
    IF o1 # "ok" THEN Catch(Write(r, "done", "", o1), o3)
    ELSE IF o2 # "ok"
         THEN Catch(Write(Write(r, "done", "", o1), "data", "{}", o2), o3)
         ELSE End(Write(Write(r, "done", "", o1), "data", "{}", o2))

BeginTruthyOnly(r, key, prompt) ==
    IF key = ""
    THEN [r EXCEPT !.prompt = prompt, !.status = 500, !.heads = Append(@, 500),
                   !.body = "GEMINI_API_KEY not configured",
                   !.ended = TRUE, !.pc = "done"]
    ELSE IF ~Truthy(prompt)
    THEN [r EXCEPT !.prompt = prompt, !.status = 400, !.heads = Append(@, 400),
                   !.body = "Invalid prompt",
                   !.ended = TRUE, !.pc = "done"]
    ELSE [r EXCEPT !.prompt = prompt, !.status = 200, !.heads = Append(@, 200),
                   !.upstream = @ + 1, !.pc = "opening"]
\* Lines 125-143: configuration check, prompt validation, writeHead(200).
Begin(r, key, prompt) ==
    IF key = ""
    THEN [r EXCEPT !.prompt = prompt, !.status = 500, !.heads = Append(@, 500),
                   !.body = "GEMINI_API_KEY not configured",
                   !.ended = TRUE, !.pc = "done"]
    ELSE IF ~Truthy(prompt) \/ prompt.kind # "string"
    THEN [r EXCEPT !.prompt = prompt, !.status = 400, !.heads = Append(@, 400),
                   !.body = "Invalid prompt",
                   !.ended = TRUE, !.pc = "done"]
    ELSE [r EXCEPT !.prompt = prompt, !.status = 200, !.heads = Append(@, 200),
                   !.upstream = @ + 1, !.pc = "opening"]

InitStream ==
    /\ apiKey \in ApiKeys
    /\ session = [s \in Sessions |-> NewSession]

\* A request arrives; the handler runs up to `await generateContentStream`.
ChatStream(s, prompt) ==
    /\ session[s].pc = "idle"
    /\ session' = [session EXCEPT ![s] = Begin(@, apiKey, prompt)]
    /\ UNCHANGED <<apiKey, payVars, apiVars>>

\* generateContentStream resolves: the handler awaits the first chunk.
StreamOpened(s) ==
    /\ session[s].pc = "opening"
    /\ session' = [session EXCEPT ![s].pc = "streaming"]
    /\ UNCHANGED <<apiKey, payVars, apiVars>>

\* generateContentStream rejects, or the iterator or chunk.text() raises.
UpstreamFails(s, o, err) ==
    /\ session[s].pc \in {"opening", "streaming"}
    /\ session' = [session EXCEPT
                      ![s] = Catch([@ EXCEPT !.failed = TRUE, !.logged = err], o)]
    /\ UNCHANGED <<apiKey, payVars, apiVars>>

Other(s) == CHOOSE u \in Sessions : u # s
PullCrossed(s, text, o1, o2) ==
    /\ session[s].pc = "streaming"
    /\ Len(session[s].pulled) < MaxFragments
    /\ session' = [session EXCEPT
                      ![s].pulled = Append(@, text),
                      ![Other(s)] = IF text = "" THEN @
                                    ELSE Write(@, "text", text, "ok")]
    /\ UNCHANGED <<apiKey, payVars, apiVars>>

\* The iterator yields a chunk; the loop body runs and the next is awaited.
Pull(s, text, o1, o2) ==
    /\ session[s].pc = "streaming"
    /\ Len(session[s].pulled) < MaxFragments
    /\ session' = [session EXCEPT ![s] = RelayChunk(@, text, o1, o2)]
    /\ UNCHANGED <<apiKey, payVars, apiVars>>

\* The iterator is exhausted.
Exhausted(s, o1, o2, o3) ==
    /\ session[s].pc = "streaming"
    /\ session' = [session EXCEPT ![s] = Finish(@, o1, o2, o3)]
    /\ UNCHANGED <<apiKey, payVars, apiVars>>

\* The client closes the connection; what the response buffered is discarded.
ClientCloses(s) ==
    /\ session[s].pc \in {"opening", "streaming"}
    /\ ~session[s].gone
    /\ session' = [session EXCEPT ![s].gone = TRUE, ![s].pending = <<>>]
    /\ UNCHANGED <<apiKey, payVars, apiVars>>

\* The socket flushes one buffered write to the client.
Drain(s) ==
    /\ session[s].pending # <<>>
    /\ session' = [session EXCEPT ![s].pending = Tail(@)]
    /\ UNCHANGED <<apiKey, payVars, apiVars>>

NextStream ==
    \/ \E s \in Sessions, prompt \in Prompts : ChatStream(s, prompt)
    \/ \E s \in Sessions : StreamOpened(s)
    \/ \E s \in Sessions, o \in Outcomes, err \in RawErrors :
           UpstreamFails(s, o, err)
    \/ \E s \in Sessions, text \in Fragments, o1, o2 \in Outcomes :
           Pull(s, text, o1, o2)
    \/ \E s \in Sessions, o1, o2, o3 \in Outcomes : Exhausted(s, o1, o2, o3)
    \/ \E s \in Sessions : ClientCloses(s)
    \/ \E s \in Sessions : Drain(s)


(***************************************************************************)
(* The request/response endpoints that call a provider: create-order,      *)
(* payments and chat.  Each handler awaits one provider call; its outcome  *)
(* is "ok" or the error the provider raised.                               *)
(*                                                                         *)
(* Number(req.body.amount) is NaN, or a finite number held exactly in      *)
(* thousandths of a rupee.                                                 *)
(***************************************************************************)
KeyIds == {"", "rzp_key"}
NaN == [kind |-> "nan", milli |-> 0]
Rupees(milli) == [kind |-> "finite", milli |-> milli]
Amounts == {NaN, Rupees(0 - 1000), Rupees(0), Rupees(4), Rupees(5), Rupees(19990)}
CallOutcomes == {"ok"} \cup RawErrors

\* endpoint, the request's input, the response (status and JSON body), the
\* provider calls made with their argument, and what console.error logged.
NoApi ==
    [endpoint |-> "", amount |-> NaN, prompt |-> Undefined,
     status |-> 0, success |-> FALSE, error |-> "", upstream |-> <<>>,
     logged |-> ""]

InvalidAmountNegativeOnly(a) == a.kind = "nan" \/ a.milli < 0
\* !amountInRupees || amountInRupees <= 0
InvalidAmount(a) == a.kind = "nan" \/ a.milli <= 0

MinorUnitsTruncated(a) == a.milli \div 10
\* Math.round(amountInRupees * 100): the nearest integer, halves upwards.
MinorUnits(a) == (a.milli + 5) \div 10

OrderFailureEcho(r, err) ==
    [r EXCEPT !.status = 500, !.success = FALSE, !.error = err, !.logged = err]
\* catch of create-order: log the error, answer 500 with a fixed reason.
OrderFailure(r, err) ==
    [r EXCEPT !.status = 500, !.success = FALSE,
              !.error = "Failed to create order", !.logged = err]

\* app.post('/api/razorpay/create-order')
CreateOrderResponse(keyId, secret, a, out) ==
    LET r == [NoApi EXCEPT !.endpoint = "create-order", !.amount = a]
        called == [r EXCEPT !.upstream =
                      <<[call |-> "orders.create", amount |-> MinorUnits(a)]>>]
    IN  IF keyId = "" \/ secret = <<>>
        THEN [r EXCEPT !.status = 500, !.error = "Razorpay keys not configured"]
        ELSE IF InvalidAmount(a)
        THEN [r EXCEPT !.status = 400, !.error = "Invalid amount"]
        ELSE IF out = "ok"
        THEN [called EXCEPT !.status = 200, !.success = TRUE]
        ELSE OrderFailure(called, out)

\* app.get('/api/razorpay/payments')
PaymentsResponse(out) ==
    LET called == [NoApi EXCEPT !.endpoint = "payments", !.upstream =
                      <<[call |-> "payments.all", amount |-> 20]>>]
    IN  IF out = "ok"
        THEN [called EXCEPT !.status = 200, !.success = TRUE]
        ELSE [called EXCEPT !.status = 500,
                            !.error = "Failed to fetch payments", !.logged = out]

\* app.post('/api/gemini/chat')
ChatResponse(key, prompt, out) ==
    LET r == [NoApi EXCEPT !.endpoint = "chat", !.prompt = prompt]
        called == [r EXCEPT !.upstream =
                      <<[call |-> "generateContent", amount |-> 0]>>]
    IN  IF key = ""
        THEN [r EXCEPT !.status = 500, !.error = "GEMINI_API_KEY not configured"]
        ELSE IF ~Truthy(prompt) \/ prompt.kind # "string"
        THEN [r EXCEPT !.status = 400, !.error = "Invalid prompt"]
        ELSE IF out = "ok"
        THEN [called EXCEPT !.status = 200, !.success = TRUE]
        ELSE [called EXCEPT !.status = 500,
                            !.error = "Failed to generate response", !.logged = out]

InitApi ==
    /\ razorpayKeyId \in KeyIds
    /\ api = NoApi

\* One create-order request, from arrival to response.
CreateOrder(a, out) ==
    /\ api' = CreateOrderResponse(razorpayKeyId, razorpayKeySecret, a, out)
    /\ UNCHANGED <<razorpayKeyId, payVars, streamVars>>

\* One payments request, from arrival to response; the provider refuses a
\* call made without keys.
ListPayments(out) ==
    /\ (razorpayKeyId = "" \/ razorpayKeySecret = <<>>) => out # "ok"
    /\ api' = PaymentsResponse(out)
    /\ UNCHANGED <<razorpayKeyId, payVars, streamVars>>

\* One chat request, from arrival to response.
Chat(prompt, out) ==
    /\ api' = ChatResponse(apiKey, prompt, out)
    /\ UNCHANGED <<razorpayKeyId, payVars, streamVars>>

NextApi ==
    \/ \E a \in Amounts, out \in CallOutcomes : CreateOrder(a, out)
    \/ \E out \in CallOutcomes : ListPayments(out)
    \/ \E prompt \in Prompts, out \in CallOutcomes : Chat(prompt, out)

\* The relay's steps for one session.
RelayStep(s) ==
    \/ StreamOpened(s)
    \/ \E o \in Outcomes, err \in RawErrors : UpstreamFails(s, o, err)
    \/ \E text \in Fragments, o1, o2 \in Outcomes : Pull(s, text, o1, o2)
    \/ \E o1, o2, o3 \in Outcomes : Exhausted(s, o1, o2, o3)

\* A single chat-stream request and its client.
NextOne ==
    \/ \E prompt \in Prompts : ChatStream("a", prompt)
    \/ RelayStep("a")
    \/ ClientCloses("a")
    \/ Drain("a")

InitPay ==
    /\ razorpayKeySecret \in Secrets
    /\ sockets = {}
    /\ inbox = [s \in Subscribers |-> <<>>]
    /\ published = <<>>
    /\ lastCall = NoCall
    /\ nCalls = 0
    /\ nMatched = 0
    /\ nVerified = 0

\* The supplied signature is the hex HMAC of orderId + "|" + referenceId.
SuppliedEqualsHmac(secret, order, pay, sig) ==
    sig.kind = "string" /\ sig.str = Hmac(secret, Payload(order, pay))

\* Every field of the request body is present and non-empty.
AllPresent(order, pay, sig) == Truthy(order) /\ Truthy(pay) /\ Truthy(sig)

\* A socket.io client connects: it joins the registry.
Connect(s) ==
    /\ s \notin sockets
    /\ sockets' = sockets \cup {s}
    /\ UNCHANGED <<razorpayKeySecret, inbox, published, lastCall, nCalls, nMatched, nVerified>>
    /\ UNCHANGED <<streamVars, apiVars>>

\* A socket.io client disconnects: it leaves the registry.
Disconnect(s) ==
    /\ s \in sockets
    /\ sockets' = sockets \ {s}
    /\ UNCHANGED <<razorpayKeySecret, inbox, published, lastCall, nCalls, nMatched, nVerified>>
    /\ UNCHANGED <<streamVars, apiVars>>

\* One verify-payment request, run to completion (the handler never awaits).
Verify(order, pay, sig) ==
    /\ nCalls < MaxCalls
    /\ LET r == VerifyPayment(razorpayKeySecret, order, pay, sig)
           k == Emits(r.effects)
       IN  /\ lastCall' = r
           /\ nCalls' = nCalls + 1
           /\ nMatched' = nMatched +
                  (IF SuppliedEqualsHmac(razorpayKeySecret, order, pay, sig)
                   THEN 1 ELSE 0)
           /\ nVerified' = nVerified +
                  (IF AllPresent(order, pay, sig)
                      /\ SuppliedEqualsHmac(razorpayKeySecret, order, pay, sig)
                   THEN 1 ELSE 0)
           /\ IF k > 0
              THEN /\ published' = Append(published,
                                      [order |-> order, pay |-> pay,
                                       registry |-> sockets, call |-> nCalls + 1])
                   /\ inbox' = Broadcast(sockets, inbox, Len(published) + 1)
              ELSE UNCHANGED <<published, inbox>>
    /\ UNCHANGED <<razorpayKeySecret, sockets>>
    /\ UNCHANGED <<streamVars, apiVars>>

NextPay ==
    \/ \E s \in Subscribers : Connect(s)
    \/ \E s \in Subscribers : Disconnect(s)
    \/ \E order \in OrderIds, pay \in PaymentIds, sig \in Signatures :
           Verify(order, pay, sig)

(***************************************************************************)
(* Properties of the verify-payment handler and of the broadcaster.        *)
(***************************************************************************)
Called == lastCall.status # 0
LastMatches ==
    SuppliedEqualsHmac(razorpayKeySecret, lastCall.order, lastCall.pay, lastCall.sig)
LastPresent == AllPresent(lastCall.order, lastCall.pay, lastCall.sig)
Range(seq) == {seq[i] : i \in 1..Len(seq)}
Copies(seq, n) == Cardinality({i \in 1..Len(seq) : seq[i] = n})
\* An "emit" step occurs, and a "json" step occurs later in the trace.
EmitBeforeJson(effects) ==
    \E i, j \in 1..Len(effects) :
        i < j /\ effects[i] = "emit" /\ effects[j] = "json"

\* C1 as stated: in every call the event is emitted exactly once if the
\* supplied signature equals the HMAC of orderId|referenceId and not at all
\* otherwise, so the events emitted number the calls whose signature matched.
C1_EmittedIffSignatureMatches ==
    /\ Called => Emits(lastCall.effects) = (IF LastMatches THEN 1 ELSE 0)
    /\ Len(published) = nMatched

\* C1 amended: in every call whose three body fields are all present and
\* non-empty the event is emitted exactly once if the supplied signature
\* equals the HMAC and not at all otherwise; a call with a missing or empty
\* field never emits; the events emitted number the calls that had every
\* field present and a matching signature.
C1_EmittedIffPresentAndMatches ==
    /\ Called =>
          Emits(lastCall.effects) = (IF LastPresent /\ LastMatches THEN 1 ELSE 0)
    /\ Called => (lastCall.success <=> Emits(lastCall.effects) = 1)
    /\ Len(published) = nVerified

\* A successful call after an earlier call that emitted nothing.
C1_Witness ==
    /\ lastCall.success
    /\ Emits(lastCall.effects) = 1
    /\ Len(published) >= 1
    /\ nCalls > Len(published)

\* C2 as stated: when the order id, the payment id, the signature or the
\* secret is missing or empty, the call answers 400 without computing a
\* signature, does not report success and publishes nothing.
C2_AllFourRequired ==
    (Called /\ (~LastPresent \/ razorpayKeySecret = <<>>)) =>
        /\ lastCall.status = 400
        /\ ~lastCall.success
        /\ "hmac" \notin Range(lastCall.effects)
        /\ "emit" \notin Range(lastCall.effects)

\* C3 as stated: a call whose signature matches publishes before it sends
\* the success response; a call whose signature does not match publishes
\* nothing and answers 200 with success: false.
C3_PublishBeforeResponse ==
    Called =>
        IF LastMatches
        THEN EmitBeforeJson(lastCall.effects) /\ lastCall.status = 200
                /\ lastCall.success
        ELSE "emit" \notin Range(lastCall.effects) /\ lastCall.status = 200
                /\ ~lastCall.success

\* C3 amended: among the calls whose three body fields are all present and
\* non-empty, a call whose signature matches publishes before it sends the
\* success response, and a call whose signature does not match publishes
\* nothing and answers 200 with success: false.
C3_PublishBeforeResponseWhenPresent ==
    (Called /\ LastPresent) =>
        IF LastMatches
        THEN EmitBeforeJson(lastCall.effects) /\ lastCall.status = 200
                /\ lastCall.success
        ELSE "emit" \notin Range(lastCall.effects) /\ lastCall.status = 200
                /\ ~lastCall.success

\* A matching call that published and then answered, delivered to a listener.
C3_Witness ==
    /\ LastPresent /\ LastMatches
    /\ lastCall.effects = <<"hmac", "emit", "json">>
    /\ \E s \in Subscribers : Len(published) \in Range(inbox[s])

Begun(s) == session[s].status = 200
Kinds(w) == [i \in 1..Len(w) |-> w[i].ev]
Texts(w) == [i \in 1..Len(w) |-> w[i].text]
NonEmpty(text) == text # ""
IsText(e) == e.ev = "text"
\* The terminal events a write log holds: "done" opens the done event,
\* "error" is the error event.
Terminals(w) == {i \in 1..Len(w) : w[i].ev \in {"done", "error"}}

\* C4 as stated: the events written to a stream that has begun are data
\* text events followed by exactly one terminal event, done or error and not
\* both, then the close; nothing is written after the terminal event.
C4_OneTerminalEventThenClose ==
    \A s \in Sessions : Begun(s) =>
        LET w == session[s].wire
        IN  /\ Cardinality(Terminals(w)) <= 1
            /\ \A i \in Terminals(w) : \A j \in 1..(i - 1) : w[j].ev = "text"
            /\ \A i \in 1..Len(w) : w[i].ev = "error" => i = Len(w)
            /\ \A i \in 1..Len(w) :
                  w[i].ev = "done" =>
                      i + 1 = Len(w) /\ w[i + 1].ev = "data"
            /\ session[s].pc = "done" =>
                  Cardinality(Terminals(w)) = 1 /\ session[s].ended

\* C5: in a session whose upstream call or iterator failed, the writes are
\* the non-empty fragments pulled before the failure, unchanged and in
\* order, each as one data event, then one error event and nothing else,
\* and the response is ended.
C5_FragmentsThenOneErrorThenClose ==
    \A s \in Sessions : session[s].failed =>
        LET w == session[s].wire
            k == Len(w) - 1
        IN  /\ Len(w) >= 1
            /\ w[Len(w)].ev = "error"
            /\ \A i \in 1..k : w[i].ev = "text" /\ w[i].ok
            /\ Texts(SubSeq(w, 1, k)) = SelectSeq(session[s].pulled, NonEmpty)
            /\ session[s].ended /\ session[s].pc = "done"

\* An upstream failure after the fragments "Hel" and "lo" were written.
C5_Witness ==
    \E s \in Sessions :
        /\ session[s].failed
        /\ Kinds(session[s].wire) = <<"text", "text", "error">>
        /\ Texts(session[s].wire) = <<"Hel", "lo", "Streaming failed">>
        /\ session[s].ended

\* C6 as stated: once the client has disconnected, the relay pulls no
\* further fragment and makes no further write, terminal event included.
C6_NoPullNoWriteAfterDisconnect ==
    [][\A s \in Sessions :
          session[s].gone =>
              /\ session'[s].pulled = session[s].pulled
              /\ session'[s].wire = session[s].wire]_vars

\* C7 as stated: at no time is more than one fragment written to the
\* response and not yet flushed to the client.
C7_AtMostOneFragmentInFlight ==
    \A s \in Sessions :
        Cardinality({i \in 1..Len(session[s].pending) :
                        session[s].pending[i] = "text"}) <= 1

\* C8 as stated: a failed write is the last write of its session, and the
\* response is ended.
C8_NoWriteAfterFailedWrite ==
    \A s \in Sessions :
        \A i \in 1..Len(session[s].wire) :
            ~session[s].wire[i].ok =>
                i = Len(session[s].wire) /\ session[s].ended

(***************************************************************************)
(* Properties of input validation, configuration and order creation.       *)
(***************************************************************************)
Started(s) == session[s].pc # "idle"
\* A prompt that is missing, empty or not a string.
InvalidPrompt(p) == p.kind # "string" \/ p.str = <<>>
\* An amount that is 0, negative or not a number.
NotPositive(a) == a.kind = "nan" \/ a.milli <= 0
\* The integer nearest to a hundred times the amount.
Nearest(a) ==
    CHOOSE n \in 0..(a.milli \div 10 + 1) :
        10 * n - 5 <= a.milli /\ a.milli < 10 * n + 5
PaymentKeysAbsent == razorpayKeyId = "" \/ razorpayKeySecret = <<>>

\* C11 as stated: a chat-stream request whose prompt is missing, empty or
\* not a string is answered 400, with no upstream call, no 200 headers and
\* no event written.
C11_InvalidPromptRejectedBeforeStream ==
    \A s \in Sessions :
        (Started(s) /\ InvalidPrompt(session[s].prompt)) =>
            /\ session[s].status = 400
            /\ session[s].heads = <<400>>
            /\ session[s].upstream = 0
            /\ session[s].wire = <<>>

\* C11 amended: a chat-stream request whose prompt is missing, empty or
\* not a string is answered with a JSON error, 400 when the API key is
\* configured and 500 when it is not, with no upstream call, no 200 headers
\* and no event written; its response is ended and no stream starts.
C11_InvalidPromptRejectedWithJsonError ==
    \A s \in Sessions :
        (Started(s) /\ InvalidPrompt(session[s].prompt)) =>
            /\ session[s].status = (IF apiKey = "" THEN 500 ELSE 400)
            /\ session[s].heads = <<session[s].status>>
            /\ session[s].upstream = 0
            /\ session[s].wire = <<>>
            /\ session[s].pc = "done" /\ session[s].ended

\* A numeric prompt answered 400 while the other session streams.
C11_Witness ==
    \E s, u \in Sessions :
        /\ session[s].prompt = Num(<<53>>) /\ session[s].status = 400
        /\ session[u].pc = "streaming"

\* C12 as stated: on create-order, verify-payment, chat and chat-stream a
\* request with malformed or missing input is answered 400, whatever the
\* provider configuration.
C12_InvalidInputAlways400 ==
    /\ (api.endpoint = "create-order" /\ NotPositive(api.amount)) =>
          api.status = 400
    /\ (api.endpoint = "chat" /\ InvalidPrompt(api.prompt)) => api.status = 400
    /\ (Called /\ ~LastPresent) => lastCall.status = 400
    /\ \A s \in Sessions :
          (Started(s) /\ InvalidPrompt(session[s].prompt)) =>
              session[s].status = 400

\* C12 amended: verify-payment answers malformed or missing input with 400
\* whatever the configuration; create-order, chat and chat-stream answer it
\* with 400 when the credentials the endpoint checks are configured, and
\* with 500 when they are missing.
C12_InvalidInput400WhenConfigured ==
    /\ (api.endpoint = "create-order" /\ NotPositive(api.amount)) =>
          api.status = (IF PaymentKeysAbsent THEN 500 ELSE 400)
    /\ (api.endpoint = "chat" /\ InvalidPrompt(api.prompt)) =>
          api.status = (IF apiKey = "" THEN 500 ELSE 400)
    /\ (Called /\ ~LastPresent) => lastCall.status = 400
    /\ \A s \in Sessions :
          (Started(s) /\ InvalidPrompt(session[s].prompt)) =>
              session[s].status = (IF apiKey = "" THEN 500 ELSE 400)

\* An amount of 0 answered 400 after a verify-payment call with a missing
\* field and a chat-stream request with an empty prompt.
C12_Witness ==
    /\ api.endpoint = "create-order" /\ api.amount = Rupees(0)
    /\ api.status = 400
    /\ Called /\ ~LastPresent
    /\ session["a"].prompt = Str(<<>>) /\ session["a"].status = 400

\* C13 as stated: with the payment keys absent every call of a payment
\* endpoint, and with the API key absent every call of a generation
\* endpoint, is answered 500 and makes no provider call.
C13_MissingCredentials500NoUpstream ==
    /\ (PaymentKeysAbsent /\ api.endpoint \in {"create-order", "payments"}) =>
          api.status = 500 /\ api.upstream = <<>>
    /\ (razorpayKeySecret = <<>> /\ Called) => lastCall.status = 500
    /\ (apiKey = "" /\ api.endpoint = "chat") =>
          api.status = 500 /\ api.upstream = <<>>
    /\ apiKey = "" =>
          \A s \in Sessions :
              Started(s) => session[s].status = 500 /\ session[s].upstream = 0

\* C14 as stated: create-order passes the integer nearest to a hundred
\* times the amount to the provider (19.99 gives 1999), and answers an
\* amount that is 0, negative or not a number with 400 and no provider call.
C14_MinorUnitsAndInvalidAmount400 ==
    api.endpoint = "create-order" =>
        IF NotPositive(api.amount)
        THEN api.status = 400 /\ api.upstream = <<>>
        ELSE \A i \in 1..Len(api.upstream) :
                /\ api.upstream[i].amount = Nearest(api.amount)
                /\ api.amount = Rupees(19990) => api.upstream[i].amount = 1999

\* C14 amended: create-order passes the integer nearest to a hundred
\* times the amount to the provider (19.99 gives 1999); an amount that is
\* 0, negative or not a number is answered 400 when the payment keys are
\* configured and 500 when they are not, with no provider call either way.
C14_MinorUnitsAndInvalidAmountRejected ==
    api.endpoint = "create-order" =>
        IF NotPositive(api.amount)
        THEN /\ api.status = (IF PaymentKeysAbsent THEN 500 ELSE 400)
             /\ api.upstream = <<>>
        ELSE /\ ~PaymentKeysAbsent => Len(api.upstream) = 1
             /\ \A i \in 1..Len(api.upstream) :
                   /\ api.upstream[i].amount = Nearest(api.amount)
                   /\ api.amount = Rupees(19990) => api.upstream[i].amount = 1999

\* 19.99 rupees sent to the provider as 1999.
C14_Witness ==
    /\ api.endpoint = "create-order" /\ api.amount = Rupees(19990)
    /\ api.status = 200
    /\ api.upstream = <<[call |-> "orders.create", amount |-> 1999]>>

\* C15 as stated: every amount create-order passes to the provider is an
\* integer greater than 0.
C15_CreatedAmountPositive ==
    api.endpoint = "create-order" =>
        \A i \in 1..Len(api.upstream) :
            api.upstream[i].amount \in Nat /\ api.upstream[i].amount > 0

\* C19 as stated: comparing the expected signature with a supplied one of
\* the same length examines every character, wherever they first differ.
C19_ComparisonExaminesEveryCharacter ==
    LET expected ==
            Hmac(razorpayKeySecret, Payload(lastCall.order, lastCall.pay))
    IN  (Called /\ "hmac" \in Range(lastCall.effects)
            /\ lastCall.sig.kind = "string"
            /\ Len(lastCall.sig.str) = Len(expected)) =>
            lastCall.work = Len(expected)

(***************************************************************************)
(* Further properties of the streaming relay.                              *)
(***************************************************************************)
\* The texts of the data events written to a response.
DataTexts(w) == Texts(SelectSeq(w, IsText))

\* C16: the data events written on each session's response are that
\* session's non-empty upstream fragments, one event each, in the order
\* the iterator produced them, whatever the other session does.
C16_OwnFragmentsInOrder ==
    \A s \in Sessions :
        DataTexts(session[s].wire) = SelectSeq(session[s].pulled, NonEmpty)

\* Two sessions streaming at once, each holding its own fragments.
C16_Witness ==
    /\ session["a"].pc = "streaming" /\ session["b"].pc = "streaming"
    /\ DataTexts(session["a"].wire) = <<"Hel", "lo">>
    /\ DataTexts(session["b"].wire) = <<"lo", "Hel">>

\* C17: a request writes its response head at most once; once it is 200 the
\* status stays 200, and an upstream failure shows only as the error event
\* at the end of the stream.
C17_HeadersOnceFailureAsEvent ==
    \A s \in Sessions :
        /\ Len(session[s].heads) <= 1
        /\ session[s].heads # <<>> => session[s].status = session[s].heads[1]
        /\ session[s].failed =>
              /\ session[s].heads = <<200>>
              /\ session[s].status = 200
              /\ session[s].wire[Len(session[s].wire)].ev = "error"

\* An upstream failure after a fragment was written, answered under 200.
C17_Witness ==
    \E s \in Sessions :
        /\ session[s].failed /\ session[s].ended
        /\ session[s].heads = <<200>>
        /\ Kinds(session[s].wire) = <<"text", "error">>

\* The fixed reason each endpoint answers when its provider call fails.
GenericReason(endpoint) ==
    CASE endpoint = "create-order" -> "Failed to create order"
      [] endpoint = "payments" -> "Failed to fetch payments"
      [] endpoint = "chat" -> "Failed to generate response"

\* C18: whatever error the provider raised, the response is 500 with the
\* endpoint's fixed reason, and a stream under 200 ends with the error event
\* carrying the fixed reason; the raw error is only logged.
C18_ResponseIndependentOfRawError ==
    /\ api.logged # "" =>
          /\ api.status = 500 /\ ~api.success
          /\ api.error = GenericReason(api.endpoint)
    /\ api.error \notin RawErrors
    /\ \A s \in Sessions :
          /\ session[s].logged # "" =>
                /\ session[s].status = 200
                /\ session[s].wire[Len(session[s].wire)].ev = "error"
                /\ session[s].wire[Len(session[s].wire)].text = "Streaming failed"
          /\ \A i \in 1..Len(session[s].wire) :
                session[s].wire[i].text \notin RawErrors

\* A failed order creation and a failed stream, with different raw errors.
C18_Witness ==
    /\ api.endpoint = "create-order" /\ api.logged = "429 quota exceeded"
    /\ session["a"].logged = "503 unavailable"
    /\ Len(session["a"].wire) >= 2

\* C20: every session that has written its 200 headers eventually ends its
\* response, given that the upstream call and iterator return or fail.
C20_BegunSessionEventuallyEnds ==
    \A s \in Sessions : Begun(s) ~> session[s].ended

\* A session ended although the write of its error event threw.
C20_Witness ==
    \E s \in Sessions :
        /\ Begun(s) /\ session[s].ended /\ session[s].rejected
        /\ ~session[s].wire[Len(session[s].wire)].ok

Next == NextPay \/ NextStream \/ NextApi

\* The state once the module is loaded: no request yet, no socket connected.
Init == InitPay /\ InitStream /\ InitApi

\* The same, as the relay sees it: the payment keys play no part and are set.
InitRelay ==
    InitPay /\ InitStream /\ InitApi
        /\ razorpayKeySecret # <<>> /\ razorpayKeyId # ""

\* The same, as verify-payment sees it: the other keys are set.
InitVerify == InitPay /\ InitStream /\ InitApi /\ apiKey # "" /\ razorpayKeyId # ""

\* The request/response endpoints next to one streaming request.
NextGateway == NextApi \/ NextOne

\* The first verify-payment request.
VerifyOnce(order, pay, sig) == nCalls = 0 /\ Verify(order, pay, sig)

\* Every endpoint that validates its input, up to its first await.
NextValidate ==
    \/ NextApi
    \/ \E order \in OrderIds, pay \in PaymentIds, sig \in Signatures :
           VerifyOnce(order, pay, sig)
    \/ \E prompt \in Prompts : ChatStream("a", prompt)

Spec == Init /\ [][Next]_vars
SpecPay == InitVerify /\ [][NextPay]_vars
SpecStream == InitRelay /\ [][NextStream]_vars
SpecApi == Init /\ [][NextGateway]_vars
SpecValidate == Init /\ [][NextValidate]_vars
SpecLive == InitRelay /\ [][NextOne]_vars /\ WF_vars(RelayStep("a"))
====
